---- MODULE Spec2Model ----
(***************************************************************************)
(* Model of the address-book assistant in src/main.py: the Record and      *)
(* AddressBook classes, the input_error wrapper, persistence and the       *)
(* command loop of main().                                                 *)
(*                                                                         *)
(* A Python str is a sequence of one-character strings ("" is <<>>); a     *)
(* message literal is a one-chunk sequence (<<"Contact added.">>), and     *)
(* texts are concatenated with \o as Python concatenates them.             *)
(* A calendar date is <<year, month, day>>.                                *)
(***************************************************************************)
EXTENDS Integers, Sequences, FiniteSets, TLC

VARIABLES book, file, pc, input, result, output, today

vars == <<book, file, pc, input, result, output, today>>

----------------------------------------------------------------------------
(* Bounds *)

MaxPhones == 2
NumYears == 2

----------------------------------------------------------------------------
(* Python values *)

None == <<"<None>">>
Empty == <<>>

Truthy(v) == v # None /\ v # Empty

Ok(v) == [exc |-> "ok", val |-> v]
Raise(kind, msg) == [exc |-> kind, val |-> msg]

RECURSIVE Join(_, _)
Join(parts, sep) ==
    IF Len(parts) = 0 THEN <<>>
    ELSE IF Len(parts) = 1 THEN parts[1]
    ELSE parts[1] \o sep \o Join(Tail(parts), sep)

Digits == <<"0", "1", "2", "3", "4", "5", "6", "7", "8", "9">>
IsDigit(c) == \E i \in 1..10 : Digits[i] = c
DigitVal(c) == (CHOOSE i \in 1..10 : Digits[i] = c) - 1

UpperCase == <<"A", "B", "C", "D", "E", "F", "G", "H", "I", "J", "K", "L", "M",
               "N", "O", "P", "Q", "R", "S", "T", "U", "V", "W", "X", "Y", "Z">>
LowerCase == <<"a", "b", "c", "d", "e", "f", "g", "h", "i", "j", "k", "l", "m",
               "n", "o", "p", "q", "r", "s", "t", "u", "v", "w", "x", "y", "z">>

lower(s) ==
    [i \in 1..Len(s) |->
        IF \E k \in 1..26 : UpperCase[k] = s[i]
        THEN LowerCase[CHOOSE k \in 1..26 : UpperCase[k] = s[i]]
        ELSE s[i]]

----------------------------------------------------------------------------
(* datetime.date *)

IsLeap(y) == (y % 4 = 0) /\ ((y % 100 # 0) \/ (y % 400 = 0))

DaysInMonth(y, m) ==
    IF m = 2 THEN (IF IsLeap(y) THEN 29 ELSE 28)
    ELSE IF m \in {4, 6, 9, 11} THEN 30 ELSE 31

RECURSIVE DaysBeforeMonth(_, _)
DaysBeforeMonth(y, m) ==
    IF m = 1 THEN 0 ELSE DaysBeforeMonth(y, m - 1) + DaysInMonth(y, m - 1)

DaysBeforeYear(y) ==
    (y - 1) * 365 + ((y - 1) \div 4) - ((y - 1) \div 100) + ((y - 1) \div 400)

toordinal(d) == DaysBeforeYear(d[1]) + DaysBeforeMonth(d[1], d[2]) + d[3]

weekday(d) == (toordinal(d) + 6) % 7

ValidDate(y, m, d) ==
    /\ y >= 1 /\ y <= 9999
    /\ m >= 1 /\ m <= 12
    /\ d >= 1 /\ d <= DaysInMonth(y, m)

\* date.replace(year=y)
replace_year(d, y) ==
    IF y < 1 \/ y > 9999
    THEN Raise("ValueError", <<"year is out of range">>)
    ELSE IF d[3] > DaysInMonth(y, d[2])
    THEN Raise("ValueError", <<"day is out of range for month">>)
    ELSE Ok(<<y, d[2], d[3]>>)

NextDay(d) ==
    IF d[3] < DaysInMonth(d[1], d[2]) THEN <<d[1], d[2], d[3] + 1>>
    ELSE IF d[2] < 12 THEN <<d[1], d[2] + 1, 1>>
    ELSE <<d[1] + 1, 1, 1>>

\* date + timedelta(days=k), k >= 0
RECURSIVE AddDays(_, _)
AddDays(d, k) == IF k = 0 THEN d ELSE AddDays(NextDay(d), k - 1)

\* the regular expressions _strptime builds for %d, %m and %Y: the set of
\* positions at which a match starting at position i can end
MatchDay(s, i) ==
    {j \in {i + 1, i + 2} : j <= Len(s) + 1 /\
        \/ j = i + 2 /\ s[i] = "3" /\ s[i + 1] \in {"0", "1"}
        \/ j = i + 2 /\ s[i] \in {"1", "2"} /\ IsDigit(s[i + 1])
        \/ j = i + 2 /\ s[i] = "0" /\ IsDigit(s[i + 1]) /\ s[i + 1] # "0"
        \/ j = i + 1 /\ IsDigit(s[i]) /\ s[i] # "0"
        \/ j = i + 2 /\ s[i] = " " /\ IsDigit(s[i + 1]) /\ s[i + 1] # "0"}

MatchMonth(s, i) ==
    {j \in {i + 1, i + 2} : j <= Len(s) + 1 /\
        \/ j = i + 2 /\ s[i] = "1" /\ s[i + 1] \in {"0", "1", "2"}
        \/ j = i + 2 /\ s[i] = "0" /\ IsDigit(s[i + 1]) /\ s[i + 1] # "0"
        \/ j = i + 1 /\ IsDigit(s[i]) /\ s[i] # "0"}

MatchYear(s, i) ==
    {j \in {i + 4} : j <= Len(s) + 1 /\ \A k \in i..(i + 3) : IsDigit(s[k])}

MatchDot(s, i) == {j \in {i + 1} : j <= Len(s) + 1 /\ s[i] = "."}

RECURSIVE Number(_, _, _)
Number(s, i, j) ==
    IF i >= j THEN 0
    ELSE IF s[j - 1] = " " THEN 0
    ELSE Number(s, i, j - 1) * 10 + DigitVal(s[j - 1])

\* the matches of "%d.%m.%Y" against a prefix of s: <<day end, month end, year end>>
FormatMatches(s) ==
    UNION {UNION {{<<a, b, c>> : c \in IF b + 1 \in MatchDot(s, b)
                                      THEN MatchYear(s, b + 1) ELSE {}} :
                  b \in IF a + 1 \in MatchDot(s, a) THEN MatchMonth(s, a + 1) ELSE {}} :
           a \in MatchDay(s, 1)}

\* the date of a match m of the format: the text must end where the match
\* ends and the fields must make a date
MatchedDate(s, m, d, mo, y) ==
    IF m[3] # Len(s) + 1
    THEN Raise("ValueError", <<"unconverted data remains">>)
    ELSE IF y < 1
    THEN Raise("ValueError", <<"year is out of range">>)
    ELSE IF ~ValidDate(y, mo, d)
    THEN Raise("ValueError", <<"day is out of range for month">>)
    ELSE Ok(<<y, mo, d>>)

MatchedFields(s, m) ==
    MatchedDate(s, m, Number(s, 1, m[1]), Number(s, m[1] + 1, m[2]), Number(s, m[2] + 1, m[3]))

ParseMatches(s, matches) ==
    IF matches = {}
    THEN Raise("ValueError", <<"time data does not match format">>)
    ELSE MatchedFields(s, CHOOSE x \in matches : TRUE)

\* datetime.strptime(s, "%d.%m.%Y").date()
strptime(s) ==
    IF s = None
    THEN Raise("TypeError", <<"strptime() argument 1 must be str, not None">>)
    ELSE ParseMatches(s, FormatMatches(s))

TwoDigits(n) == <<Digits[((n \div 10) % 10) + 1], Digits[(n % 10) + 1]>>
FourDigits(n) == TwoDigits(n \div 100) \o TwoDigits(n % 100)

\* date.strftime("%d.%m.%Y")
strftime(d) == TwoDigits(d[3]) \o <<".">> \o TwoDigits(d[2]) \o <<".">> \o FourDigits(d[1])

----------------------------------------------------------------------------
(* class Record *)

Record(name) == [name |-> name, phones |-> <<>>, birthday |-> None]

Contains(list, v) == \E i \in 1..Len(list) : list[i] = v
IndexOf(list, v) == CHOOSE i \in 1..Len(list) : list[i] = v /\ \A k \in 1..(i - 1) : list[k] # v
RemoveAt(list, i) == [k \in 1..(Len(list) - 1) |-> IF k < i THEN list[k] ELSE list[k + 1]]

Record_add_phone(rec, phone) ==
    IF phone = None
    THEN [rec |-> rec, res |-> Raise("ValueError", <<"Phone is required field.">>)]
    ELSE [rec |-> [rec EXCEPT !.phones = Append(@, phone)], res |-> Ok(None)]

Record_remove_phone(rec, phone) ==
    IF Contains(rec.phones, phone)
    THEN [rec |-> [rec EXCEPT !.phones = RemoveAt(@, IndexOf(@, phone))], res |-> Ok(None)]
    ELSE [rec |-> rec, res |-> Ok(None)]

Record_edit_phone_Swapped(rec, old_phone, new_phone) ==
    IF new_phone = None
    THEN [rec |-> rec, res |-> Raise("ValueError", <<"Phone is required field.">>)]
    ELSE IF ~Contains(rec.phones, old_phone)
    THEN [rec |-> rec, res |-> Raise("ValueError", <<"Phone number not found.">>)]
    ELSE [rec |-> [rec EXCEPT !.phones[IndexOf(rec.phones, old_phone)] = new_phone],
          res |-> Ok(None)]

Record_edit_phone(rec, old_phone, new_phone) ==
    IF ~Contains(rec.phones, old_phone)
    THEN [rec |-> rec, res |-> Raise("ValueError", <<"Phone number not found.">>)]
    ELSE IF new_phone = None
    THEN [rec |-> rec, res |-> Raise("ValueError", <<"Phone is required field.">>)]
    ELSE [rec |-> [rec EXCEPT !.phones[IndexOf(rec.phones, old_phone)] = new_phone],
          res |-> Ok(None)]

Record_add_birthday(rec, birthday) ==
    LET parsed == strptime(birthday)
    IN  IF parsed.exc = "ok"
        THEN [rec |-> [rec EXCEPT !.birthday = birthday], res |-> Ok(None)]
        ELSE IF parsed.exc = "ValueError"
        THEN [rec |-> rec, res |-> Raise("ValueError", <<"Invalid date format. Use DD.MM.YYYY">>)]
        ELSE [rec |-> rec, res |-> parsed]

\* Record.__str__
Record_str(rec) ==
    <<"Contact name: ">> \o rec.name \o <<", phones: ">> \o Join(rec.phones, <<"; ">>)
        \o (IF Truthy(rec.birthday) THEN <<", birthday: ">> \o rec.birthday ELSE <<>>)

----------------------------------------------------------------------------
(* class AddressBook: self.data is a dict, modelled as the sequence of its  *)
(* values in insertion order (the keys are the records' names)             *)

AddressBook == <<>>

\* self.data.get(name): the position of the record, 0 for None
find(data, name) ==
    IF \E i \in 1..Len(data) : data[i].name = name
    THEN CHOOSE i \in 1..Len(data) : data[i].name = name
    ELSE 0

add_record(data, record) ==
    IF find(data, record.name) = 0
    THEN Append(data, record)
    ELSE [data EXCEPT ![find(data, record.name)] = record]

delete(data, name) ==
    IF find(data, name) # 0 THEN RemoveAt(data, find(data, name)) ELSE data

\* timedelta(days=(7 - birthday_this_year.weekday()))
WeekendShiftShort(wd) == 6 - wd

WeekendShift(wd) == 7 - wd

\* lines 67-75: the entry appended for the candidate date, if any
Congratulate(record, tday, birthday_this_year, wd) ==
    IF 0 <= toordinal(birthday_this_year) - toordinal(tday)
       /\ toordinal(birthday_this_year) - toordinal(tday) <= 7
    THEN Ok(<<[name |-> record.name,
               congratulation_date |->
                   strftime(IF wd \in {5, 6}
                            THEN AddDays(birthday_this_year, WeekendShift(wd))
                            ELSE birthday_this_year)]>>)
    ELSE Ok(<<>>)

AfterReplace(record, tday, replaced) ==
    IF replaced.exc # "ok" THEN replaced
    ELSE Congratulate(record, tday, replaced.val, weekday(replaced.val))

\* lines 64-65: a date of this year before today moves to the next year
NextYear(record, tday, this_year) ==
    IF this_year.exc # "ok" THEN this_year
    ELSE IF toordinal(this_year.val) < toordinal(tday)
    THEN AfterReplace(record, tday, replace_year(this_year.val, tday[1] + 1))
    ELSE AfterReplace(record, tday, this_year)

ThisYear(record, tday, birthday_date) ==
    IF birthday_date.exc # "ok" THEN birthday_date
    ELSE NextYear(record, tday, replace_year(birthday_date.val, tday[1]))

\* the body of the loop of get_upcoming_birthdays for one record with a
\* birthday: Ok(<<>>) when it appends nothing, Ok(<<entry>>) when it appends
UpcomingEntry(record, tday) == ThisYear(record, tday, strptime(record.birthday))

RECURSIVE UpcomingLoop(_, _, _, _)

Appended(data, tday, i, upcoming_birthdays, e) ==
    IF e.exc # "ok" THEN e
    ELSE UpcomingLoop(data, tday, i + 1, upcoming_birthdays \o e.val)

UpcomingLoop(data, tday, i, upcoming_birthdays) ==
    IF i > Len(data) THEN Ok(upcoming_birthdays)
    ELSE IF ~Truthy(data[i].birthday) THEN UpcomingLoop(data, tday, i + 1, upcoming_birthdays)
    ELSE Appended(data, tday, i, upcoming_birthdays, UpcomingEntry(data[i], tday))

get_upcoming_birthdays(data, tday) == UpcomingLoop(data, tday, 1, <<>>)

CaughtNarrow == {"ValueError", "IndexError", "AttributeError"}

Caught == {"KeyError", "ValueError", "IndexError", "AttributeError"}

ErrorMessage(r) ==
    IF r.exc = "KeyError" THEN <<"Contact not found.">>
    ELSE IF r.exc = "ValueError"
    THEN (IF r.val # <<>> THEN r.val
          ELSE <<"Invalid input. Please follow the command format.">>)
    ELSE IF r.exc = "IndexError"
    THEN <<"Invalid input. Make sure to provide the correct number of arguments.">>
    ELSE <<"Contact doesn't have this attribute.">>

\* the decorator: call is the outcome [data, res] of the wrapped method
input_error(call) ==
    IF call.res.exc \in Caught
    THEN [data |-> call.data, res |-> Ok(ErrorMessage(call.res))]
    ELSE call

\* pickle: the object graph is written as a sequence of opcodes and rebuilt
\* by the unpickler's stack machine
Op(code, arg) == [op |-> code, arg |-> arg]

RECURSIVE DumpList(_)
DumpList(list) ==
    IF Len(list) = 0 THEN <<>>
    ELSE <<Op("STR", list[1]), Op("APPEND", <<>>)>> \o DumpList(Tail(list))

DumpValue(v) == IF v = None THEN <<Op("NONE", <<>>)>> ELSE <<Op("STR", v)>>

DumpRecordNoBirthday(rec) ==
    DumpValue(rec.name) \o <<Op("EMPTY_LIST", <<>>)>> \o DumpList(rec.phones)
        \o DumpValue(None) \o <<Op("BUILD", <<>>)>>

DumpRecord(rec) ==
    DumpValue(rec.name) \o <<Op("EMPTY_LIST", <<>>)>> \o DumpList(rec.phones)
        \o DumpValue(rec.birthday) \o <<Op("BUILD", <<>>)>>

RECURSIVE DumpDict(_)
DumpDict(data) ==
    IF Len(data) = 0 THEN <<>>
    ELSE DumpValue(data[1].name) \o DumpRecord(data[1]) \o <<Op("SETITEM", <<>>)>>
            \o DumpDict(Tail(data))

pickle_dump(data) == <<Op("EMPTY_DICT", <<>>)>> \o DumpDict(data) \o <<Op("STOP", <<>>)>>

Pop(stack, n) == SubSeq(stack, 1, Len(stack) - n)
Top(stack, k) == stack[Len(stack) - k]

RECURSIVE Unpickle(_, _, _)
Unpickle(ops, i, stack) ==
    LET o == ops[i]
    IN  IF o.op = "STOP" THEN Top(stack, 0)
        ELSE IF o.op = "STR" THEN Unpickle(ops, i + 1, Append(stack, o.arg))
        ELSE IF o.op = "NONE" THEN Unpickle(ops, i + 1, Append(stack, None))
        ELSE IF o.op \in {"EMPTY_LIST", "EMPTY_DICT"} THEN Unpickle(ops, i + 1, Append(stack, <<>>))
        ELSE IF o.op = "APPEND"
        THEN Unpickle(ops, i + 1, Append(Pop(stack, 2), Append(Top(stack, 1), Top(stack, 0))))
        ELSE IF o.op = "BUILD"
        THEN Unpickle(ops, i + 1,
                Append(Pop(stack, 3), [name |-> Top(stack, 2), phones |-> Top(stack, 1),
                                       birthday |-> Top(stack, 0)]))
        ELSE \* SETITEM: dict[key] = value
             Unpickle(ops, i + 1,
                Append(Pop(stack, 3),
                       add_record(Top(stack, 2), [Top(stack, 0) EXCEPT !.name = Top(stack, 1)])))

pickle_load(ops) == Unpickle(ops, 1, <<>>)

NoFile == [exists |-> FALSE, content |-> <<>>]

load_from_file(f) == IF f.exists THEN pickle_load(f.content) ELSE AddressBook

save_to_file(data) == [exists |-> TRUE, content |-> pickle_dump(data)]

\* the bodies of the decorated commands: [data, res]
add_contact_replacing(data, args) ==
    IF Len(args) < 2
    THEN [data |-> data,
          res |-> Raise("ValueError", <<"Provide name and at least one phone number.">>)]
    ELSE LET name == args[1]
             phone == args[2]
             created == add_record(data, Record(name))
             message == IF find(data, name) = 0 THEN <<"Contact added.">>
                        ELSE <<"Contact updated.">>
             i == find(created, name)
             added == Record_add_phone(created[i], phone)
         IN  IF ~Truthy(phone) THEN [data |-> created, res |-> Ok(message)]
             ELSE IF added.res.exc # "ok" THEN [data |-> created, res |-> added.res]
             ELSE [data |-> [created EXCEPT ![i] = added.rec], res |-> Ok(message)]

add_contact_body(data, args) ==
    IF Len(args) < 2
    THEN [data |-> data,
          res |-> Raise("ValueError", <<"Provide name and at least one phone number.">>)]
    ELSE LET name == args[1]
             phone == args[2]
             created == IF find(data, name) = 0 THEN add_record(data, Record(name)) ELSE data
             message == IF find(data, name) = 0 THEN <<"Contact added.">>
                        ELSE <<"Contact updated.">>
             i == find(created, name)
             added == Record_add_phone(created[i], phone)
         IN  IF ~Truthy(phone) THEN [data |-> created, res |-> Ok(message)]
             ELSE IF added.res.exc # "ok" THEN [data |-> created, res |-> added.res]
             ELSE [data |-> [created EXCEPT ![i] = added.rec], res |-> Ok(message)]

\* name, old_phone, new_phone = args
Unpack(args, n) ==
    IF Len(args) < n THEN Raise("ValueError", <<"not enough values to unpack">>)
    ELSE IF Len(args) > n THEN Raise("ValueError", <<"too many values to unpack">>)
    ELSE Ok(args)

edit_in(data, args) ==
    LET i == find(data, args[1])
        edited == Record_edit_phone(data[i], args[2], args[3])
    IN  IF i = 0 THEN [data |-> data, res |-> Raise("KeyError", <<>>)]
        ELSE IF edited.res.exc # "ok" THEN [data |-> data, res |-> edited.res]
        ELSE [data |-> [data EXCEPT ![i] = edited.rec], res |-> Ok(<<"Contact updated.">>)]

change_contact_lax(data, args) ==
    IF Len(args) < 3
    THEN [data |-> data, res |-> Raise("ValueError", <<"Provide name, old phone, and new phone.">>)]
    ELSE IF Unpack(args, 3).exc # "ok" THEN [data |-> data, res |-> Unpack(args, 3)]
    ELSE edit_in(data, args)

change_contact_body(data, args) ==
    IF Len(args) # 3
    THEN [data |-> data, res |-> Raise("ValueError", <<"Provide name, old phone, and new phone.">>)]
    ELSE IF Unpack(args, 3).exc # "ok" THEN [data |-> data, res |-> Unpack(args, 3)]
    ELSE edit_in(data, args)

show_phone_body(data, args) ==
    IF Len(args) # 1
    THEN [data |-> data, res |-> Raise("ValueError", <<"Provide name.">>)]
    ELSE LET name == args[1]
             i == find(data, name)
         IN  IF i # 0
             THEN [data |-> data, res |-> Ok(name \o <<": ">> \o Join(data[i].phones, <<", ">>))]
             ELSE [data |-> data, res |-> Raise("KeyError", <<>>)]

show_all_body(data) ==
    IF Len(data) = 0 THEN [data |-> data, res |-> Ok(<<"No contacts saved.">>)]
    ELSE [data |-> data,
          res |-> Ok(Join([i \in 1..Len(data) |-> Record_str(data[i])], <<"\n">>))]

add_birthday_body(data, args) ==
    IF Len(args) # 2
    THEN [data |-> data,
          res |-> Raise("ValueError", <<"Provide name and birthday in DD.MM.YYYY format.">>)]
    ELSE LET name == args[1]
             birthday == args[2]
             i == find(data, name)
             set == Record_add_birthday(data[i], birthday)
         IN  IF i = 0 THEN [data |-> data, res |-> Raise("KeyError", <<>>)]
             ELSE IF set.res.exc # "ok" THEN [data |-> data, res |-> set.res]
             ELSE [data |-> [data EXCEPT ![i] = set.rec], res |-> Ok(<<"Birthday added.">>)]

show_birthday_body(data, args) ==
    IF Len(args) # 1
    THEN [data |-> data, res |-> Raise("ValueError", <<"Provide name.">>)]
    ELSE LET name == args[1]
             i == find(data, name)
         IN  IF i # 0 /\ Truthy(data[i].birthday)
             THEN [data |-> data, res |-> Ok(name \o <<" birthday is: ">> \o data[i].birthday)]
             ELSE IF i # 0
             THEN [data |-> data, res |-> Ok(name \o <<" doesn't have a birthday set.">>)]
             ELSE [data |-> data, res |-> Raise("KeyError", <<>>)]

EntryLine(entry) == entry.name \o <<": congratulate on ">> \o entry.congratulation_date

Listing(data, upcoming) ==
    IF upcoming.exc # "ok" THEN [data |-> data, res |-> upcoming]
    ELSE IF Len(upcoming.val) = 0
    THEN [data |-> data, res |-> Ok(<<"No upcoming birthdays in the next week.">>)]
    ELSE [data |-> data,
          res |-> Ok(Join([i \in 1..Len(upcoming.val) |-> EntryLine(upcoming.val[i])],
                          <<"\n">>))]

get_birthdays_body(data, tday) == Listing(data, get_upcoming_birthdays(data, tday))

add_contact(data, args) == input_error(add_contact_body(data, args))
change_contact(data, args) == input_error(change_contact_body(data, args))
show_phone(data, args) == input_error(show_phone_body(data, args))
show_all(data) == input_error(show_all_body(data))
add_birthday(data, args) == input_error(add_birthday_body(data, args))
show_birthday(data, args) == input_error(show_birthday_body(data, args))
get_birthdays(data, tday) == input_error(get_birthdays_body(data, tday))

----------------------------------------------------------------------------
(* parse_input *)

RECURSIVE strip(_)
strip(s) ==
    IF Len(s) = 0 THEN s
    ELSE IF s[1] = " " THEN strip(Tail(s))
    ELSE IF s[Len(s)] = " " THEN strip(SubSeq(s, 1, Len(s) - 1))
    ELSE s

\* str.split(): the maximal runs of non-blank characters
RECURSIVE SplitFrom(_, _, _, _)
SplitFrom(s, i, word, words) ==
    IF i > Len(s) THEN (IF Len(word) > 0 THEN Append(words, word) ELSE words)
    ELSE IF s[i] = " "
    THEN SplitFrom(s, i + 1, <<>>, IF Len(word) > 0 THEN Append(words, word) ELSE words)
    ELSE SplitFrom(s, i + 1, Append(word, s[i]), words)

split(s) == SplitFrom(s, 1, <<>>, <<>>)

parse_input(user_input) ==
    IF Len(strip(user_input)) = 0 THEN [cmd |-> None, args |-> <<>>]
    ELSE [cmd |-> lower(strip(split(user_input)[1])), args |-> Tail(split(user_input))]

----------------------------------------------------------------------------
(* The inputs the model draws from *)

Al == <<"A", "l">>
Bo == <<"B", "o">>
Names == {Al, Bo}

P1 == <<"1", "1">>
P2 == <<"2", "2">>
Phones == {P1, P2}

D_leap == <<"2", "9", ".", "0", "2", ".", "2", "0", "2", "4">>
D_short == <<"1", ".", "3", ".", "2", "0", "2", "4">>
D_range == <<"3", "1", ".", "0", "2", ".", "2", "0", "2", "4">>
D_dash == <<"2", "0", "2", "4", "-", "0", "3", "-", "0", "1">>
D_month == <<"0", "1", ".", "1", "3", ".", "2", "0", "2", "4">>
D_year == <<"0", "1", ".", "0", "3", ".", "2", "4">>
Dates == {D_leap, D_short, D_range, D_dash, D_month, D_year}

W_add == <<"a", "d", "d">>
W_Add == <<"A", "d", "d">>
W_change == <<"c", "h", "a", "n", "g", "e">>
W_phone == <<"p", "h", "o", "n", "e">>
W_all == <<"a", "l", "l">>
W_add_birthday == <<"a", "d", "d", "-", "b", "i", "r", "t", "h", "d", "a", "y">>
W_show_birthday == <<"s", "h", "o", "w", "-", "b", "i", "r", "t", "h", "d", "a", "y">>
W_birthdays == <<"b", "i", "r", "t", "h", "d", "a", "y", "s">>
W_hello == <<"h", "e", "l", "l", "o">>
W_close == <<"c", "l", "o", "s", "e">>
W_exit == <<"e", "x", "i", "t">>
W_EXIT == <<"E", "X", "I", "T">>
W_del == <<"d", "e", "l">>

Line(tokens) == Join(tokens, <<" ">>)

AddLines ==
    {Line(<<W_add>>), Line(<<W_Add, Al, P1>>)}
        \cup {Line(<<W_add, n>>) : n \in Names}
        \cup {Line(<<W_add, Al, p>>) : p \in Phones}
        \cup {Line(<<W_add, Bo, P1>>)}
        \cup {Line(<<W_add, Al, p, P2>>) : p \in Phones}

ChangeLines ==
    {Line(<<W_change>>), Line(<<W_change, Al, P1, P2, P1>>)}
        \cup {Line(<<W_change, n, P1>>) : n \in Names}
        \cup {Line(<<W_change, Al, o, p>>) : o \in Phones, p \in Phones}
        \cup {Line(<<W_change, Bo, o, P1>>) : o \in Phones}

PhoneLines == {Line(<<W_phone>>), Line(<<W_phone, Al, Bo>>)} \cup {Line(<<W_phone, n>>) : n \in Names}

AllLines == {Line(<<W_all>>), Line(<<W_all, Al>>)}

AddBirthdayLines ==
    {Line(<<W_add_birthday>>), Line(<<W_add_birthday, Al, D_leap, D_leap>>)}
        \cup {Line(<<W_add_birthday, n>>) : n \in Names}
        \cup {Line(<<W_add_birthday, Al, d>>) : d \in Dates}
        \cup {Line(<<W_add_birthday, Bo, D_dash>>)}

ShowBirthdayLines ==
    {Line(<<W_show_birthday>>), Line(<<W_show_birthday, Al, Bo>>)}
        \cup {Line(<<W_show_birthday, n>>) : n \in Names}

BirthdaysLines == {Line(<<W_birthdays>>), Line(<<W_birthdays, Al>>)}

HelloLines == {Line(<<W_hello>>)}

ExitLines == {Line(<<W_close>>), Line(<<W_exit>>), Line(<<W_EXIT>>), <<" ">> \o W_exit}

OtherLines == {Line(<<W_del, Al>>), Line(<<P1>>)}

BlankLines == {<<>>, <<" ">>, <<" ", " ">>}

UserLines ==
    AddLines \cup ChangeLines \cup PhoneLines \cup AllLines \cup AddBirthdayLines
        \cup ShowBirthdayLines \cup BirthdaysLines \cup HelloLines \cup ExitLines
        \cup OtherLines \cup BlankLines

\* the dates the clock shows when the birthdays command is read in a session
ClockDays == {<<2024, 2, 26>>, <<2025, 2, 26>>}

PhonesBounded(data) == \A i \in 1..Len(data) : Len(data[i].phones) <= MaxPhones

----------------------------------------------------------------------------
(* main(): one action per branch of the command loop *)

\* no line has been read yet
NoInput == <<"<prompt>">>

Init ==
    /\ input = NoInput
    /\ file = NoFile
    /\ book = load_from_file(file)
    /\ pc = "running"
    /\ result = Ok(None)
    /\ output = <<"Welcome to the assistant bot!">>
    /\ today = <<2024, 2, 26>>

Commands == {W_close, W_exit, W_hello, W_add, W_change, W_phone, W_all,
             W_add_birthday, W_show_birthday, W_birthdays}

\* user_input = input(...).strip(); command, args = parse_input(user_input)
\* [stripped, cmd, args] for every line the model draws
Parsed ==
    [line \in UserLines |->
        [stripped |-> strip(line),
         cmd |-> parse_input(strip(line)).cmd,
         args |-> parse_input(strip(line)).args]]

Read(line, words) ==
    /\ pc = "running"
    /\ input' = line
    /\ Len(Parsed[line].stripped) # 0
    /\ Parsed[line].cmd \in words

Args(line) == Parsed[line].args

\* print(book.method(args)): call is the outcome of the decorated method
Respond(call) ==
    /\ book' = call.data
    /\ result' = call.res
    /\ IF call.res.exc = "ok"
       THEN output' = call.res.val /\ pc' = "running"
       ELSE output' = <<>> /\ pc' = "crashed"
    /\ PhonesBounded(call.data)

Blank(line) ==
    /\ pc = "running"
    /\ input' = line
    /\ \/ Len(Parsed[line].stripped) = 0
       \/ Parsed[line].cmd = None
    /\ output' = <<>>
    /\ UNCHANGED <<book, file, pc, result, today>>

Exit(line) ==
    /\ Read(line, {W_close, W_exit})
    /\ file' = save_to_file(book)
    /\ output' = <<"Good bye!">>
    /\ pc' = "done"
    /\ UNCHANGED <<book, result, today>>

Hello(line) ==
    /\ Read(line, {W_hello})
    /\ output' = <<"How can I help you?">>
    /\ UNCHANGED <<book, file, pc, result, today>>

Add(line) ==
    /\ Read(line, {W_add})
    /\ Respond(add_contact(book, Args(line)))
    /\ UNCHANGED <<file, today>>

Change(line) ==
    /\ Read(line, {W_change})
    /\ Respond(change_contact(book, Args(line)))
    /\ UNCHANGED <<file, today>>

Phone(line) ==
    /\ Read(line, {W_phone})
    /\ Respond(show_phone(book, Args(line)))
    /\ UNCHANGED <<file, today>>

All(line) ==
    /\ Read(line, {W_all})
    /\ Respond(show_all(book))
    /\ UNCHANGED <<file, today>>

AddBirthday(line) ==
    /\ Read(line, {W_add_birthday})
    /\ Respond(add_birthday(book, Args(line)))
    /\ UNCHANGED <<file, today>>

ShowBirthday(line) ==
    /\ Read(line, {W_show_birthday})
    /\ Respond(show_birthday(book, Args(line)))
    /\ UNCHANGED <<file, today>>

\* datetime.today() is read inside get_upcoming_birthdays
Birthdays(line) ==
    /\ Read(line, {W_birthdays})
    /\ \E tday \in ClockDays : Respond(get_birthdays(book, tday))
    /\ UNCHANGED <<file, today>>

Invalid(line) ==
    /\ pc = "running"
    /\ input' = line
    /\ Len(Parsed[line].stripped) # 0
    /\ Parsed[line].cmd \notin Commands \cup {None}
    /\ output' = <<"Invalid command.">>
    /\ UNCHANGED <<book, file, pc, result, today>>

Next ==
    \E line \in UserLines :
        \/ Blank(line)
        \/ Exit(line)
        \/ Hello(line)
        \/ Add(line)
        \/ Change(line)
        \/ Phone(line)
        \/ All(line)
        \/ AddBirthday(line)
        \/ ShowBirthday(line)
        \/ Birthdays(line)
        \/ Invalid(line)

Spec == Init /\ [][Next]_vars

----------------------------------------------------------------------------
(* Sessions one after the other: the next run of main() loads what the     *)
(* previous one saved                                                      *)

Restart ==
    /\ pc = "done"
    /\ book' = load_from_file(file)
    /\ pc' = "running"
    /\ input' = NoInput
    /\ result' = Ok(None)
    /\ output' = <<"Welcome to the assistant bot!">>
    /\ UNCHANGED <<file, today>>

PersistLines ==
    {Line(<<W_add, Al, P1>>), Line(<<W_add, Al, P2>>), Line(<<W_add, Bo, P1>>),
     Line(<<W_add_birthday, Al, D_short>>), Line(<<W_change, Al, P1, P2>>),
     Line(<<W_close>>), Line(<<W_EXIT>>)}

NextPersist ==
    \/ Restart
    \/ \E line \in PersistLines :
        \/ Exit(line)
        \/ Add(line)
        \/ Change(line)
        \/ AddBirthday(line)

SpecPersist == Init /\ [][NextPersist]_vars

----------------------------------------------------------------------------
(* The birthdays command on any directory and any date of the clock        *)

Years == 2023..(2023 + NumYears - 1)

Todays == {d \in Years \X (1..12) \X (1..31) : ValidDate(d[1], d[2], d[3])}

BirthdayTexts ==
    {strftime(<<2000, m, d>>) : m \in {1, 2, 12}, d \in {1, 6, 29, 31}} \cup {D_short}

\* the texts Record.add_birthday stores
AcceptedBirthdays == {t \in BirthdayTexts : Record_add_birthday(Record(Al), t).res.exc = "ok"}

InitQuery ==
    /\ \E b1 \in AcceptedBirthdays \cup {None}, b2 \in AcceptedBirthdays \cup {None} :
          book = <<[name |-> Al, phones |-> <<P1>>, birthday |-> b1],
                   [name |-> Bo, phones |-> <<P2>>, birthday |-> b2]>>
    /\ today \in Todays
    /\ input = NoInput
    /\ file = NoFile
    /\ pc = "query"
    /\ result = Ok(None)
    /\ output = <<>>

Answer(call) ==
    IF call.res.exc = "ok"
    THEN output' = call.res.val /\ pc' = "answered"
    ELSE output' = <<>> /\ pc' = "crashed"

\* print(book.get_birthdays()); result keeps what get_upcoming_birthdays did
Query ==
    /\ pc = "query"
    /\ result' = get_upcoming_birthdays(book, today)
    /\ Answer(get_birthdays(book, today))
    /\ UNCHANGED <<book, file, input, today>>

NextQuery == Query

SpecQuery == InitQuery /\ [][NextQuery]_vars

----------------------------------------------------------------------------
(* The methods of Record and AddressBook called directly                   *)

ApiPhones == {P1, Empty, None}
ApiDates == {D_short, D_dash, None}
ApiArgs == {<<n>> : n \in Names} \cup {<<n, p>> : n \in Names, p \in ApiPhones}

InitApi ==
    /\ input = NoInput
    /\ book = AddressBook
    /\ file = NoFile
    /\ pc = "api"
    /\ result = Ok(None)
    /\ output = <<>>
    /\ today = <<2024, 2, 26>>

\* record.method(...) on the record stored under name n; input keeps the call
OnRecord(n, call, method, args) ==
    /\ pc = "api"
    /\ input' = <<<<method>>>> \o args
    /\ book' = [book EXCEPT ![find(book, n)] = call.rec]
    /\ result' = call.res
    /\ PhonesBounded(book')
    /\ UNCHANGED <<file, pc, output, today>>

CallAddPhone(n, p) ==
    /\ find(book, n) # 0
    /\ OnRecord(n, Record_add_phone(book[find(book, n)], p), "Record.add_phone", <<n, p>>)

CallRemovePhone(n, p) ==
    /\ find(book, n) # 0
    /\ OnRecord(n, Record_remove_phone(book[find(book, n)], p), "Record.remove_phone", <<n, p>>)

CallEditPhone(n, old, new) ==
    /\ find(book, n) # 0
    /\ OnRecord(n, Record_edit_phone(book[find(book, n)], old, new),
                "Record.edit_phone", <<n, old, new>>)

CallSetBirthday(n, d) ==
    /\ find(book, n) # 0
    /\ OnRecord(n, Record_add_birthday(book[find(book, n)], d), "Record.add_birthday", <<n, d>>)

CallAddRecord(n) ==
    /\ pc = "api"
    /\ input' = <<<<"AddressBook.add_record">>, n>>
    /\ book' = add_record(book, Record(n))
    /\ result' = Ok(None)
    /\ UNCHANGED <<file, pc, output, today>>

CallDelete(n) ==
    /\ pc = "api"
    /\ input' = <<<<"AddressBook.delete">>, n>>
    /\ book' = delete(book, n)
    /\ result' = Ok(None)
    /\ UNCHANGED <<file, pc, output, today>>

CallAddContact(args) ==
    /\ pc = "api"
    /\ input' = <<<<"AddressBook.add_contact">>>> \o args
    /\ book' = add_contact(book, args).data
    /\ result' = add_contact(book, args).res
    /\ PhonesBounded(book')
    /\ UNCHANGED <<file, pc, output, today>>

NextApi ==
    \/ \E n \in Names, p \in ApiPhones : CallAddPhone(n, p)
    \/ \E n \in Names, p \in ApiPhones : CallRemovePhone(n, p)
    \/ \E n \in Names, old \in ApiPhones, new \in ApiPhones : CallEditPhone(n, old, new)
    \/ \E n \in Names, d \in ApiDates : CallSetBirthday(n, d)
    \/ \E n \in Names : CallAddRecord(n)
    \/ \E n \in Names : CallDelete(n)
    \/ \E args \in ApiArgs : CallAddContact(args)

SpecApi == InitApi /\ [][NextApi]_vars

----------------------------------------------------------------------------
(* Properties *)

\* the stored birthday's day and month placed in year y
Anchored(text, y) == <<y, strptime(text).val[2], strptime(text).val[3]>>

Before(d, e) ==
    \/ d[1] < e[1]
    \/ d[1] = e[1] /\ d[2] < e[2]
    \/ d[1] = e[1] /\ d[2] = e[2] /\ d[3] < e[3]

Candidate(text, tday) ==
    IF Before(Anchored(text, tday[1]), tday)
    THEN Anchored(text, tday[1] + 1)
    ELSE Anchored(text, tday[1])

Delta(text, tday) == toordinal(Candidate(text, tday)) - toordinal(tday)

InWindow(rec, tday) ==
    /\ Truthy(rec.birthday)
    /\ ValidDate(Candidate(rec.birthday, tday)[1], Candidate(rec.birthday, tday)[2],
                 Candidate(rec.birthday, tday)[3])
    /\ 0 <= Delta(rec.birthday, tday)
    /\ Delta(rec.birthday, tday) <= 7

EntriesFor(name) ==
    IF result.exc = "ok"
    THEN Cardinality({k \in 1..Len(result.val) : result.val[k].name = name})
    ELSE 0

\* C1: get_upcoming_birthdays emits exactly one entry for each contact whose
\* birthday is set and falls 0..7 days after today, and none for any other
C1_ExactlyTheWindow ==
    pc \in {"answered", "crashed"} =>
        \A i \in 1..Len(book) :
            EntriesFor(book[i].name) = IF InWindow(book[i], today) THEN 1 ELSE 0

CongratulationDay(entry) == strptime(entry.congratulation_date).val

EntryCandidate(entry) == Candidate(book[find(book, entry.name)].birthday, today)

\* C2: the congratulation date of every emitted entry is the candidate on
\* Monday..Friday and the following Monday for a Saturday or Sunday; it is
\* never a weekend day, never before the candidate, at most 9 days after today
C2_WeekendRoll ==
    (pc = "answered" /\ result.exc = "ok") =>
        \A k \in 1..Len(result.val) :
            LET entry == result.val[k]
                cand == EntryCandidate(entry)
                cong == CongratulationDay(entry)
            IN  /\ strptime(entry.congratulation_date).exc = "ok"
                /\ weekday(cand) \in 0..4 => cong = cand
                /\ weekday(cand) \in {5, 6} =>
                      /\ toordinal(cong) = toordinal(cand) + (7 - weekday(cand))
                      /\ weekday(cong) = 0
                /\ weekday(cong) \notin {5, 6}
                /\ toordinal(cong) >= toordinal(cand)
                /\ toordinal(cong) - toordinal(today) <= 9

C2_Witness ==
    /\ pc = "answered"
    /\ result.exc = "ok"
    /\ \E k \in 1..Len(result.val) :
          /\ weekday(EntryCandidate(result.val[k])) = 5
          /\ toordinal(EntryCandidate(result.val[k])) - toordinal(today) = 7
          /\ toordinal(CongratulationDay(result.val[k])) - toordinal(today) = 9

NoNullPhone == \A i \in 1..Len(book) : \A k \in 1..Len(book[i].phones) : Truthy(book[i].phones[k])

Called(method) == input'[1] = <<method>>

\* C3: add_phone with None or an empty phone fails with the validation error
\* and leaves the phone list unchanged, so no phone list ever holds a null or
\* empty entry
C3_PhoneRequired ==
    /\ [][(Called("Record.add_phone") /\ input'[3] \in {None, Empty}) =>
            /\ result' = Raise("ValueError", <<"Phone is required field.">>)
            /\ book' = book]_vars
    /\ []NoNullPhone

\* C4: edit_phone(old, new) with old not in the phone list fails with the
\* not-found error and leaves the phone list unchanged, whatever new is
C4_EditAbsent ==
    [][(/\ Called("Record.edit_phone")
        /\ ~Contains(book[find(book, input'[2])].phones, input'[3])) =>
            /\ result' = Raise("ValueError", <<"Phone number not found.">>)
            /\ book' = book]_vars

C4_Witness ==
    /\ pc = "api"
    /\ Len(input) = 4
    /\ input[1] = <<"Record.edit_phone">>
    /\ input[4] = None
    /\ result = Raise("ValueError", <<"Phone number not found.">>)
    /\ \E i \in 1..Len(book) : Len(book[i].phones) = 2

ArgCommands == {W_add, W_change, W_phone, W_add_birthday, W_show_birthday}

\* the number of arguments the command surface lists
Arity(cmd) ==
    IF cmd = W_add THEN 2
    ELSE IF cmd = W_change THEN 3
    ELSE IF cmd = W_add_birthday THEN 2
    ELSE 1

Usage(cmd) ==
    IF cmd = W_add THEN <<"Provide name and at least one phone number.">>
    ELSE IF cmd = W_change THEN <<"Provide name, old phone, and new phone.">>
    ELSE IF cmd = W_add_birthday THEN <<"Provide name and birthday in DD.MM.YYYY format.">>
    ELSE <<"Provide name.">>

Cmd(line) == Parsed[line].cmd

\* C5 as stated: a command called with a number of arguments different from
\* the listed one (add 2, change 3, phone 1, add-birthday 2, show-birthday 1)
\* returns the usage error and leaves the directory unchanged
C5_ListedArity ==
    [][(/\ input' \in UserLines
        /\ Cmd(input') \in ArgCommands
        /\ Len(Args(input')) # Arity(Cmd(input'))) =>
            /\ output' = Usage(Cmd(input'))
            /\ book' = book]_vars

WrongArity(line) ==
    IF Parsed[line].cmd = W_add
    THEN Len(Args(line)) < 2
    ELSE Len(Args(line)) # Arity(Parsed[line].cmd)

\* C5 amended: change, phone, add-birthday and show-birthday called with a
\* number of arguments different from the listed one, and add called with
\* fewer than 2, return the usage error and leave the directory unchanged; add
\* with more than 2 arguments is carried out with its first two
C5_ArityFirst ==
    [][/\ (/\ input' \in UserLines
            /\ Cmd(input') \in ArgCommands
            /\ WrongArity(input')) =>
                /\ output' = Usage(Cmd(input'))
                /\ book' = book
       /\ (/\ input' \in UserLines
            /\ Cmd(input') = W_add
            /\ Len(Args(input')) > 2) =>
                /\ output' \in {<<"Contact added.">>, <<"Contact updated.">>}
                /\ find(book', Args(input')[1]) # 0
                /\ LET phones == book'[find(book', Args(input')[1])].phones
                   IN  phones[Len(phones)] = Args(input')[2]]_vars

C5_Witness ==
    /\ pc = "running"
    /\ input = Line(<<W_change, Al, P1, P2, P1>>)
    /\ output = <<"Provide name, old phone, and new phone.">>
    /\ Len(book) = 2

\* C6: add on a name in the directory answers "Contact updated." and appends
\* the phone to that contact, keeping its phones and birthday; on a new name
\* it answers "Contact added." and creates the contact with exactly [phone]
C6_AddAppends ==
    [][(/\ input' \in UserLines
        /\ Cmd(input') = W_add
        /\ Len(Args(input')) >= 2) =>
            LET name == Args(input')[1]
                phone == Args(input')[2]
                i == find(book, name)
            IN  IF i # 0
                THEN /\ output' = <<"Contact updated.">>
                     /\ book' = [book EXCEPT ![i].phones = Append(@, phone)]
                ELSE /\ output' = <<"Contact added.">>
                     /\ book' = Append(book, [name |-> name, phones |-> <<phone>>,
                                              birthday |-> None])]_vars

C6_Witness ==
    /\ pc = "running"
    /\ input = Line(<<W_add, Al, P2>>)
    /\ output = <<"Contact updated.">>
    /\ \E i \in 1..Len(book) :
          /\ book[i].phones = <<P1, P2>>
          /\ book[i].birthday = D_leap

\* what the undecorated command of a line does on the current directory
Body(line, tday) ==
    LET cmd == Parsed[line].cmd
    IN  IF cmd = W_add THEN add_contact_body(book, Args(line))
        ELSE IF cmd = W_change THEN change_contact_body(book, Args(line))
        ELSE IF cmd = W_phone THEN show_phone_body(book, Args(line))
        ELSE IF cmd = W_all THEN show_all_body(book)
        ELSE IF cmd = W_add_birthday THEN add_birthday_body(book, Args(line))
        ELSE IF cmd = W_show_birthday THEN show_birthday_body(book, Args(line))
        ELSE get_birthdays_body(book, tday)

MethodCommands == ArgCommands \cup {W_all, W_birthdays}

OneLine(text) == Len(text) = 1 /\ text[1] # "\n"

\* C7: every error a command raises becomes a one-line message and the
\* session goes on; the session ends only on close or exit; an unrecognized
\* command or a blank line leaves the directory unchanged
C7_ErrorsCaught ==
    /\ [](pc \in {"running", "done"})
    /\ [][(input' \in UserLines /\ Cmd(input') \in MethodCommands) =>
            \E tday \in ClockDays :
                IF Body(input', tday).res.exc = "ok"
                THEN output' = Body(input', tday).res.val
                ELSE pc' = "running" /\ OneLine(output')]_vars
    /\ [][pc' = "done" => (input' \in UserLines /\ Cmd(input') \in {W_close, W_exit})]_vars
    /\ [][(input' \in UserLines /\ Cmd(input') \notin Commands) =>
                (book' = book /\ pc' = "running")]_vars

C7_Witness ==
    /\ pc = "running"
    /\ input = Line(<<W_change, Bo, P1, P1>>)
    /\ output = <<"Contact not found.">>
    /\ Len(book) = 1

\* C8: exit and close save the directory before the session ends and the
\* next session's load gives back the same names, phone lists and birthdays;
\* without a stored file the session starts with an empty directory
C8_RoundTrip ==
    /\ (~file.exists => book = <<>>)
    /\ [](pc = "done" => (file.exists /\ load_from_file(file) = book))
    /\ [][(pc = "done" /\ pc' = "running") => book' = book]_vars

C8_Witness ==
    /\ pc = "running"
    /\ input = NoInput
    /\ file.exists
    /\ output = <<"Welcome to the assistant bot!">>
    /\ Len(book) = 2
    /\ \E i \in 1..Len(book) : book[i].phones = <<P2, P1>> /\ book[i].birthday = D_short

\* two-digit day, dot, two-digit month, dot, four-digit year, a real date
WellFormed(text) ==
    /\ Len(text) = 10
    /\ \A k \in {1, 2, 4, 5, 7, 8, 9, 10} : IsDigit(text[k])
    /\ text[3] = "." /\ text[6] = "."
    /\ ValidDate(Number(text, 7, 11), Number(text, 4, 6), Number(text, 1, 3))

\* C9: every contact's birthday is unset or a text of the form DD.MM.YYYY
\* that denotes a real calendar date
C9_BirthdayForm ==
    \A i \in 1..Len(book) : book[i].birthday = None \/ WellFormed(book[i].birthday)

EntryLines(entries) == Join([k \in 1..Len(entries) |-> EntryLine(entries[k])], <<"\n">>)

\* C10: get_upcoming_birthdays returns a list without raising, and the
\* birthdays command answers with the qualifying contacts or the "no upcoming
\* birthdays" message, never with an error message
C10_NeverRaises ==
    pc \in {"answered", "crashed"} =>
        /\ pc = "answered"
        /\ result.exc = "ok"
        /\ IF result.exc = "ok" /\ Len(result.val) > 0
           THEN output = EntryLines(result.val)
           ELSE output = <<"No upcoming birthdays in the next week.">>

====
